---- MODULE Spec2Model ----
(***************************************************************************)
(* State-machine model of the CHIP-8 core in chip8_core/src/lib.rs.        *)
(* The variables are the fields of struct Emulator, plus what a caller     *)
(* observes of a call: whether it returned or panicked (outcome), how many *)
(* lines "BING" were printed (tones), and the build profile that decides   *)
(* whether integer overflow panics or wraps (overflow_checks).  The host    *)
(* makes budget calls of tick() on a fresh or reset emulator; fuel is what *)
(* is left of them.                                                        *)
(***************************************************************************)
EXTENDS Integers, Sequences, FiniteSets, TLC

\* ---------------------------------------------------------------- constants
SCREEN_WIDTH == 64
SCREEN_HEIGHT == 32
FONTSET_SIZE == 80
RAM_SIZE == 4096
NUM_REGS == 16
STACK_SIZE == 16
NUM_KEYS == 16
START_ADDR == 512
U16 == 65536
U8 == 256

FONTSET ==
  << 240, 144, 144, 144, 240,
     32, 96, 32, 32, 112,
     240, 16, 240, 128, 240,
     240, 16, 240, 16, 240,
     144, 144, 240, 16, 16,
     240, 128, 240, 16, 240,
     240, 128, 240, 144, 240,
     240, 16, 32, 64, 64,
     240, 144, 240, 144, 240,
     240, 144, 240, 16, 240,
     240, 144, 240, 144, 144,
     224, 144, 224, 144, 224,
     240, 128, 128, 128, 240,
     224, 144, 144, 144, 224,
     240, 128, 240, 128, 240,
     240, 128, 240, 128, 128 >>

\* ------------------------------------------------------------------- bounds
\* number of 16-bit program words placed at START_ADDR in the initial memory
ProgLen == 3
\* number of tick() calls the host makes on a loaded program
MaxTicks == 18
\* largest initial value of the two timers in the timer runs
MaxTimer == 2
\* number of tick() calls the host makes in the timer runs
TimerTicks == 3
\* tick_timers() is not called any more once this many tones were printed
MaxTones == 3
\* number of tick() calls the host makes on an emulator without a program
SlideTicks == 1800
\* number of those calls that a run may already have made when it is taken up
SlideStart == 1780
\* tick() calls the host makes in the instruction runs
InstrTicks == 5

VARIABLES program_counter, ram, screen, v_reg, i_reg, stack_pointer, stack,
          keys, delay_timer, sound_timer, outcome, tones, overflow_checks,
          fuel, budget

vars == << program_counter, ram, screen, v_reg, i_reg, stack_pointer, stack,
           keys, delay_timer, sound_timer, outcome, tones, overflow_checks,
           fuel, budget >>

\* The Emulator struct as a record of the current values of its fields.
Emulator ==
  [ program_counter |-> program_counter, ram |-> ram, screen |-> screen,
    v_reg |-> v_reg, i_reg |-> i_reg, stack_pointer |-> stack_pointer,
    stack |-> stack, keys |-> keys, delay_timer |-> delay_timer,
    sound_timer |-> sound_timer ]

\* Outcomes of a call: it returns, or it panics at one of these places.
OK == "ok"
PanicFetchIndex == "fetch_opcode: index out of bounds"
PanicPushIndex == "push: index out of bounds"
PanicPopSubtract == "pop: attempt to subtract with overflow"
PanicPopIndex == "pop: index out of bounds"
PanicAddOverflow == "attempt to add with overflow"
PanicVRegRange == "v register value not accessible"
PanicVRegIndex == "v_reg: index out of bounds"
PanicUnimplemented == "not implemented: Unimplemented operation code"

\* A call's result: the struct as the call leaves it, and its outcome.
Result(e, o) == [emu |-> e, outcome |-> o]

\* [0; RAM_SIZE] and [false; SCREEN_WIDTH * SCREEN_HEIGHT]
zero_ram == [a \in 0..(RAM_SIZE - 1) |-> 0]
blank_screen == [p \in 0..(SCREEN_WIDTH * SCREEN_HEIGHT - 1) |-> FALSE]

\* ram[..FONTSET_SIZE].copy_from_slice(&FONTSET): byte k of the font goes to
\* address k, for each of the FONTSET_SIZE bytes
copy_font(m) ==
  [m EXCEPT
     ![0] = FONTSET[1], ![1] = FONTSET[2], ![2] = FONTSET[3], ![3] = FONTSET[4],
     ![4] = FONTSET[5], ![5] = FONTSET[6], ![6] = FONTSET[7], ![7] = FONTSET[8],
     ![8] = FONTSET[9], ![9] = FONTSET[10], ![10] = FONTSET[11], ![11] = FONTSET[12],
     ![12] = FONTSET[13], ![13] = FONTSET[14], ![14] = FONTSET[15], ![15] = FONTSET[16],
     ![16] = FONTSET[17], ![17] = FONTSET[18], ![18] = FONTSET[19], ![19] = FONTSET[20],
     ![20] = FONTSET[21], ![21] = FONTSET[22], ![22] = FONTSET[23], ![23] = FONTSET[24],
     ![24] = FONTSET[25], ![25] = FONTSET[26], ![26] = FONTSET[27], ![27] = FONTSET[28],
     ![28] = FONTSET[29], ![29] = FONTSET[30], ![30] = FONTSET[31], ![31] = FONTSET[32],
     ![32] = FONTSET[33], ![33] = FONTSET[34], ![34] = FONTSET[35], ![35] = FONTSET[36],
     ![36] = FONTSET[37], ![37] = FONTSET[38], ![38] = FONTSET[39], ![39] = FONTSET[40],
     ![40] = FONTSET[41], ![41] = FONTSET[42], ![42] = FONTSET[43], ![43] = FONTSET[44],
     ![44] = FONTSET[45], ![45] = FONTSET[46], ![46] = FONTSET[47], ![47] = FONTSET[48],
     ![48] = FONTSET[49], ![49] = FONTSET[50], ![50] = FONTSET[51], ![51] = FONTSET[52],
     ![52] = FONTSET[53], ![53] = FONTSET[54], ![54] = FONTSET[55], ![55] = FONTSET[56],
     ![56] = FONTSET[57], ![57] = FONTSET[58], ![58] = FONTSET[59], ![59] = FONTSET[60],
     ![60] = FONTSET[61], ![61] = FONTSET[62], ![62] = FONTSET[63], ![63] = FONTSET[64],
     ![64] = FONTSET[65], ![65] = FONTSET[66], ![66] = FONTSET[67], ![67] = FONTSET[68],
     ![68] = FONTSET[69], ![69] = FONTSET[70], ![70] = FONTSET[71], ![71] = FONTSET[72],
     ![72] = FONTSET[73], ![73] = FONTSET[74], ![74] = FONTSET[75], ![75] = FONTSET[76],
     ![76] = FONTSET[77], ![77] = FONTSET[78], ![78] = FONTSET[79], ![79] = FONTSET[80]]

\* Emulator::new()
new ==
  [ program_counter |-> START_ADDR,
    ram |-> copy_font(zero_ram),
    screen |-> blank_screen,
    v_reg |-> [r \in 0..(NUM_REGS - 1) |-> 0],
    i_reg |-> 0,
    stack_pointer |-> 0,
    stack |-> [s \in 0..(STACK_SIZE - 1) |-> 0],
    keys |-> [k \in 0..(NUM_KEYS - 1) |-> FALSE],
    delay_timer |-> 0,
    sound_timer |-> 0 ]

\* set_v_reg whose range check also rejects register 15
set_v_reg_rejects_flag(self, x, value) ==
  IF x > 14
    THEN Result(self, PanicVRegRange)
    ELSE Result([self EXCEPT !.v_reg[x] = value], OK)

\* set_v_reg that also clears the flag register VF
set_v_reg_clears_flag(self, x, value) ==
  IF x > 15
    THEN Result(self, PanicVRegRange)
    ELSE Result([self EXCEPT !.v_reg = [[self.v_reg EXCEPT ![15] = 0] EXCEPT ![x] = value]], OK)

\* Emulator::set_v_reg
set_v_reg(self, x, value) ==
  IF x > 15
    THEN Result(self, PanicVRegRange)
    ELSE Result([self EXCEPT !.v_reg[x] = value], OK)

\* Emulator::get_v_reg: the value, or the panic
get_v_reg(self, x) ==
  IF x > 15
    THEN [value |-> 0, outcome |-> PanicVRegRange]
    ELSE [value |-> self.v_reg[x], outcome |-> OK]

\* clear_screen that clears the first row of pixels only
clear_screen_first_row(self) ==
  [self EXCEPT !.screen = [p \in 0..(SCREEN_WIDTH * SCREEN_HEIGHT - 1) |->
                             IF p < SCREEN_WIDTH THEN FALSE ELSE self.screen[p]]]

\* Emulator::clear_screen
clear_screen(self) ==
  [self EXCEPT !.screen = blank_screen]

\* push that takes the last slot for full
push_off_by_one(self, value) ==
  IF self.stack_pointer >= STACK_SIZE - 1
    THEN Result(self, PanicPushIndex)
    ELSE Result([self EXCEPT !.stack[self.stack_pointer] = value,
                             !.stack_pointer = self.stack_pointer + 1], OK)

\* Emulator::push: the indexed store panics before the pointer moves
push(self, value) ==
  IF self.stack_pointer >= STACK_SIZE
    THEN Result(self, PanicPushIndex)
    ELSE IF self.stack_pointer + 1 >= U16
      THEN Result(self, PanicAddOverflow)
      ELSE Result([self EXCEPT !.stack[self.stack_pointer] = value,
                               !.stack_pointer = self.stack_pointer + 1], OK)

\* pop that reads the slot before it moves the pointer
pop_stale(self, checks) ==
  IF self.stack_pointer = 0 /\ checks
    THEN [emu |-> self, value |-> 0, outcome |-> PanicPopSubtract]
    ELSE LET sp == (self.stack_pointer - 1 + U16) % U16
             e == [self EXCEPT !.stack_pointer = sp]
         IN IF sp >= STACK_SIZE
              THEN [emu |-> e, value |-> 0, outcome |-> PanicPopIndex]
              ELSE [emu |-> e, value |-> self.stack[self.stack_pointer % STACK_SIZE],
                    outcome |-> OK]

\* Emulator::pop: the u16 subtraction panics when overflow checks are on and
\* wraps when they are off; the indexed load then panics on the wrapped pointer
pop(self, checks) ==
  IF self.stack_pointer = 0 /\ checks
    THEN [emu |-> self, value |-> 0, outcome |-> PanicPopSubtract]
    ELSE LET sp == (self.stack_pointer - 1 + U16) % U16
             e == [self EXCEPT !.stack_pointer = sp]
         IN IF sp >= STACK_SIZE
              THEN [emu |-> e, value |-> 0, outcome |-> PanicPopIndex]
              ELSE [emu |-> e, value |-> self.stack[sp], outcome |-> OK]

\* reset that leaves the two timers as they are
reset_keeps_timers(self) ==
  [self EXCEPT
     !.program_counter = START_ADDR,
     !.ram = copy_font(zero_ram),
     !.screen = blank_screen,
     !.v_reg = [r \in 0..(NUM_REGS - 1) |-> 0],
     !.i_reg = 0,
     !.stack_pointer = 0,
     !.stack = [k \in 0..(STACK_SIZE - 1) |-> 0],
     !.keys = [k \in 0..(NUM_KEYS - 1) |-> FALSE]]

\* reset that does not copy the font back into memory
reset_without_font(self) ==
  LET cleared ==
        [self EXCEPT
           !.program_counter = START_ADDR,
           !.ram = zero_ram,
           !.screen = blank_screen,
           !.v_reg = [r \in 0..(NUM_REGS - 1) |-> 0],
           !.i_reg = 0,
           !.stack_pointer = 0,
           !.stack = [k \in 0..(STACK_SIZE - 1) |-> 0],
           !.keys = [k \in 0..(NUM_KEYS - 1) |-> FALSE],
           !.delay_timer = 0,
           !.sound_timer = 0]
  IN cleared

\* Emulator::reset: every field is assigned, then the font is copied in
reset(self) ==
  LET cleared ==
        [self EXCEPT
           !.program_counter = START_ADDR,
           !.ram = zero_ram,
           !.screen = blank_screen,
           !.v_reg = [r \in 0..(NUM_REGS - 1) |-> 0],
           !.i_reg = 0,
           !.stack_pointer = 0,
           !.stack = [k \in 0..(STACK_SIZE - 1) |-> 0],
           !.keys = [k \in 0..(NUM_KEYS - 1) |-> FALSE],
           !.delay_timer = 0,
           !.sound_timer = 0]
  IN [cleared EXCEPT !.ram = copy_font(cleared.ram)]

\* program_counter += 1 instead of += 2
advance_by_one(self, checks) ==
  IF self.program_counter + 1 >= U16 /\ checks
    THEN Result(self, PanicAddOverflow)
    ELSE Result([self EXCEPT !.program_counter = (self.program_counter + 1) % U16], OK)

\* program_counter += 2 on a u16
advance(self, checks) ==
  IF self.program_counter + 2 >= U16 /\ checks
    THEN Result(self, PanicAddOverflow)
    ELSE Result([self EXCEPT !.program_counter = (self.program_counter + 2) % U16], OK)

\* fetch_opcode that bounds only the first byte and reads a missing second byte as 0
fetch_opcode_first_byte_only(self, checks) ==
  LET pc == self.program_counter IN
  IF pc >= RAM_SIZE
    THEN [emu |-> self, opcode |-> 0, outcome |-> PanicFetchIndex]
    ELSE LET higher_byte == self.ram[pc]
             lower_byte == IF pc + 1 >= RAM_SIZE THEN 0 ELSE self.ram[pc + 1]
             r == advance(self, checks)
         IN [emu |-> r.emu, opcode |-> higher_byte * 256 + lower_byte,
             outcome |-> r.outcome]

\* fetch_opcode that takes addresses modulo the memory size
fetch_opcode_wraps(self, checks) ==
  LET pc == self.program_counter
      higher_byte == self.ram[pc % RAM_SIZE]
      lower_byte == self.ram[(pc + 1) % RAM_SIZE]
      r == advance(self, checks)
  IN [emu |-> r.emu, opcode |-> higher_byte * 256 + lower_byte,
      outcome |-> r.outcome]

\* Emulator::fetch_opcode
fetch_opcode(self, checks) ==
  LET pc == self.program_counter IN
  IF pc >= RAM_SIZE
    THEN [emu |-> self, opcode |-> 0, outcome |-> PanicFetchIndex]
    ELSE IF pc + 1 >= U16 /\ checks
      THEN [emu |-> self, opcode |-> 0, outcome |-> PanicAddOverflow]
      ELSE IF (pc + 1) % U16 >= RAM_SIZE
        THEN [emu |-> self, opcode |-> 0, outcome |-> PanicFetchIndex]
        ELSE LET higher_byte == self.ram[pc]
                 lower_byte == self.ram[(pc + 1) % U16]
                 r == advance(self, checks)
             IN [emu |-> r.emu, opcode |-> higher_byte * 256 + lower_byte,
                 outcome |-> r.outcome]

\* u8::saturating_add in the place of u8::wrapping_add
saturating_add(a, b) == IF a + b >= U8 THEN U8 - 1 ELSE a + b

\* u8::wrapping_add
wrapping_add(a, b) == (a + b) % U8

\* a skip that adds 4 to the program counter
skip_if_by_four(self, cond, checks) ==
  IF cond
    THEN LET a == advance(self, checks)
         IN IF a.outcome # OK THEN a ELSE advance(a.emu, checks)
    ELSE Result(self, OK)

\* a skip that is taken exactly when its condition does not hold
skip_if_inverted(self, cond, checks) ==
  IF cond THEN Result(self, OK) ELSE advance(self, checks)

\* the conditional skip of 3xnn, 4xnn and 5xy0
skip_if(self, cond, checks) ==
  IF cond THEN advance(self, checks) ELSE Result(self, OK)

\* Emulator::execute_opcode
execute_opcode(self, opcode, checks) ==
  LET digit1 == opcode \div 4096
      digit2 == (opcode \div 256) % 16
      digit3 == (opcode \div 16) % 16
      digit4 == opcode % 16
      nnn == opcode % 4096
      nn == opcode % 256
      x == digit2
      y == digit3
  IN CASE digit1 = 0 /\ digit2 = 0 /\ digit3 = 0 /\ digit4 = 0 ->
            Result(self, OK)
       [] digit1 = 0 /\ digit2 = 0 /\ digit3 = 14 /\ digit4 = 0 ->
            Result(clear_screen(self), OK)
       [] digit1 = 0 /\ digit2 = 0 /\ digit3 = 14 /\ digit4 = 14 ->
            LET p == pop(self, checks) IN
            IF p.outcome # OK
              THEN Result(p.emu, p.outcome)
              ELSE Result([p.emu EXCEPT !.program_counter = p.value], OK)
       [] digit1 = 1 ->
            Result([self EXCEPT !.program_counter = nnn], OK)
       [] digit1 = 2 ->
            LET p == push(self, self.program_counter) IN
            IF p.outcome # OK
              THEN p
              ELSE Result([p.emu EXCEPT !.program_counter = nnn], OK)
       [] digit1 = 3 ->
            IF x >= NUM_REGS
              THEN Result(self, PanicVRegIndex)
              ELSE skip_if(self, self.v_reg[x] = nn, checks)
       [] digit1 = 4 ->
            IF x >= NUM_REGS
              THEN Result(self, PanicVRegIndex)
              ELSE skip_if(self, self.v_reg[x] # nn, checks)
       [] digit1 = 5 /\ digit4 = 0 ->
            IF x >= NUM_REGS \/ y >= NUM_REGS
              THEN Result(self, PanicVRegIndex)
              ELSE skip_if(self, self.v_reg[x] = self.v_reg[y], checks)
       [] digit1 = 6 -> set_v_reg(self, x, nn)
       [] digit1 = 7 ->
            LET g == get_v_reg(self, x) IN
            IF g.outcome # OK
              THEN Result(self, g.outcome)
              ELSE set_v_reg(self, x, wrapping_add(g.value, nn))
       [] digit1 = 8 /\ digit4 = 0 ->
            LET g == get_v_reg(self, y) IN
            IF g.outcome # OK
              THEN Result(self, g.outcome)
              ELSE set_v_reg(self, x, g.value)
       [] OTHER -> Result(self, PanicUnimplemented)

\* Emulator::tick_timers; bing is the number of lines printed by the call
tick_timers(self) ==
  LET d == IF self.delay_timer > 0
             THEN [self EXCEPT !.delay_timer = self.delay_timer - 1]
             ELSE self
  IN CASE d.sound_timer = 0 -> [emu |-> d, bing |-> 0]
       [] d.sound_timer = 1 -> [emu |-> d, bing |-> 1]
       [] OTHER -> [emu |-> [d EXCEPT !.sound_timer = d.sound_timer - 1],
                    bing |-> 0]

\* tick that also runs the timers after the instruction
tick_with_timers(self, checks) ==
  LET f == fetch_opcode(self, checks) IN
  IF f.outcome # OK
    THEN Result(f.emu, f.outcome)
    ELSE LET r == execute_opcode(f.emu, f.opcode, checks)
         IN Result(tick_timers(r.emu).emu, r.outcome)

\* Emulator::tick
tick(self, checks) ==
  LET f == fetch_opcode(self, checks) IN
  IF f.outcome # OK
    THEN Result(f.emu, f.outcome)
    ELSE execute_opcode(f.emu, f.opcode, checks)

\* ---------------------------------------------------------- initial states
\* Program words the initial memory is filled with.
ProgramWords ==
  { 238,    \* 00EE RET
    17,     \* 0011 no pattern
    8190,   \* 1FFE JP 0xFFE
    8191,   \* 1FFF JP 0xFFF
    8706,   \* 2202 CALL 0x202
    8708,   \* 2204 CALL 0x204
    61450   \* F00A LD V0,K
  }

\* Program words of the timer runs.
TimerProgramWords ==
  { 0,      \* 0000 NOP
    238,    \* 00EE RET
    8708,   \* 2204 CALL 0x204
    61450   \* F00A LD V0,K
  }

\* Program words of the instruction runs.
InstrWords ==
  { 0,      \* 0000 NOP
    224,    \* 00E0 CLS
    4608,   \* 1200 JP 0x200
    8708,   \* 2204 CALL 0x204
    24917,  \* 6155 LD V1,0x55
    29183,  \* 71FF ADD V1,0xFF
    36624   \* 8F10 LD VF,V1
  }

\* Program words of the skip runs.
SkipWords ==
  { 24917,  \* 6155 LD V1,0x55
    25173,  \* 6255 LD V2,0x55
    12629,  \* 3155 SE V1,0x55
    16725,  \* 4155 SNE V1,0x55
    20768,  \* 5120 SE V1,V2
    16128,  \* 3F00 SE VF,0x00
    20224   \* 4F00 SNE VF,0x00
  }

\* Program words of the register runs.
RegisterWords ==
  { 24917,  \* 6155 LD V1,0x55
    28586,  \* 6FAA LD VF,0xAA
    29183,  \* 71FF ADD V1,0xFF
    32513,  \* 7F01 ADD VF,0x01
    33040,  \* 8110 LD V1,V1
    33264,  \* 81F0 LD V1,VF
    36624   \* 8F10 LD VF,V1
  }

\* Program words of the display runs.
ScreenWords ==
  { 0,      \* 0000 NOP
    224,    \* 00E0 CLS
    4608,   \* 1200 JP 0x200
    24917   \* 6155 LD V1,0x55
  }

\* Display contents the display runs start from.
full_screen == [p \in 0..(SCREEN_WIDTH * SCREEN_HEIGHT - 1) |-> TRUE]
striped_screen == [p \in 0..(SCREEN_WIDTH * SCREEN_HEIGHT - 1) |-> p % 2 = 0]
ScreenPatterns == {blank_screen, full_screen, striped_screen}

\* Program words of the runs that end at the top of memory, and the words
\* stored in the last two bytes of memory.
TailProgramWords ==
  { 238,    \* 00EE RET
    8190,   \* 1FFE JP 0xFFE
    12286,  \* 2FFE CALL 0xFFE
    24832   \* 6100 LD V1,0x00
  }
TailWords ==
  { 12288,  \* 3000 SE V0,0x00
    16384,  \* 4000 SNE V0,0x00
    8706,   \* 2202 CALL 0x202
    12286   \* 2FFE CALL 0xFFE
  }

\* the struct with the word w stored in the last two bytes of memory
load_tail(self, w) ==
  [self EXCEPT !.ram[RAM_SIZE - 2] = w \div 256, !.ram[RAM_SIZE - 1] = w % 256]

\* memory m with the words prog[i], prog[i + 1], ... stored big-endian from
\* START_ADDR + 2 * i on
RECURSIVE store(_, _, _)
store(m, prog, i) ==
  IF i >= ProgLen
    THEN m
    ELSE store([m EXCEPT ![START_ADDR + 2 * i] = prog[i] \div 256,
                         ![START_ADDR + 2 * i + 1] = prog[i] % 256],
               prog, i + 1)

\* the struct with the words of prog stored from START_ADDR on
load(self, prog) == [self EXCEPT !.ram = store(self.ram, prog, 0)]

\* the variables hold the struct e
Holds(e) ==
  /\ program_counter = e.program_counter
  /\ ram = e.ram
  /\ screen = e.screen
  /\ v_reg = e.v_reg
  /\ i_reg = e.i_reg
  /\ stack_pointer = e.stack_pointer
  /\ stack = e.stack
  /\ keys = e.keys
  /\ delay_timer = e.delay_timer
  /\ sound_timer = e.sound_timer

\* the call leaves the struct e
Becomes(e) ==
  /\ program_counter' = e.program_counter
  /\ ram' = e.ram
  /\ screen' = e.screen
  /\ v_reg' = e.v_reg
  /\ i_reg' = e.i_reg
  /\ stack_pointer' = e.stack_pointer
  /\ stack' = e.stack
  /\ keys' = e.keys
  /\ delay_timer' = e.delay_timer
  /\ sound_timer' = e.sound_timer

\* A fresh emulator whose memory was filled with a program; the host makes
\* MaxTicks calls of tick() and stops at the first panic.
Init ==
  \E prog \in [0..(ProgLen - 1) -> ProgramWords], checks \in BOOLEAN :
    /\ LET e == load(new, prog) IN Holds(e)
    /\ outcome = OK
    /\ tones = 0
    /\ overflow_checks = checks
    /\ fuel = MaxTicks
    /\ budget = MaxTicks

\* As Init, with the two timers set beforehand.
InitTimers ==
  \E prog \in [0..(ProgLen - 1) -> TimerProgramWords], checks \in BOOLEAN,
     dt \in 0..MaxTimer, st \in 0..MaxTimer :
    /\ LET e == [load(new, prog) EXCEPT !.delay_timer = dt, !.sound_timer = st]
       IN Holds(e)
    /\ outcome = OK
    /\ tones = 0
    /\ overflow_checks = checks
    /\ fuel = TimerTicks
    /\ budget = TimerTicks

\* A fresh emulator whose memory was filled with a program of InstrWords; the
\* host makes InstrTicks calls of tick().
InitInstr ==
  \E prog \in [0..(ProgLen - 1) -> InstrWords], checks \in BOOLEAN :
    /\ LET e == load(new, prog) IN Holds(e)
    /\ outcome = OK
    /\ tones = 0
    /\ overflow_checks = checks
    /\ fuel = InstrTicks
    /\ budget = InstrTicks

\* As InitInstr, with a program of SkipWords.
InitSkips ==
  \E prog \in [0..(ProgLen - 1) -> SkipWords], checks \in BOOLEAN :
    /\ LET e == load(new, prog) IN Holds(e)
    /\ outcome = OK
    /\ tones = 0
    /\ overflow_checks = checks
    /\ fuel = InstrTicks
    /\ budget = InstrTicks

\* As InitInstr, with a program of RegisterWords.
InitRegisters ==
  \E prog \in [0..(ProgLen - 1) -> RegisterWords], checks \in BOOLEAN :
    /\ LET e == load(new, prog) IN Holds(e)
    /\ outcome = OK
    /\ tones = 0
    /\ overflow_checks = checks
    /\ fuel = InstrTicks
    /\ budget = InstrTicks

\* As InitInstr, with a program of ScreenWords and pixels set beforehand.
InitScreen ==
  \E prog \in [0..(ProgLen - 1) -> ScreenWords], checks \in BOOLEAN,
     pixels \in ScreenPatterns :
    /\ LET e == [load(new, prog) EXCEPT !.screen = pixels] IN Holds(e)
    /\ outcome = OK
    /\ tones = 0
    /\ overflow_checks = checks
    /\ fuel = InstrTicks
    /\ budget = InstrTicks

\* As InitInstr, with a program of TailProgramWords and a word of TailWords in
\* the last two bytes of memory.
InitTail ==
  \E prog \in [0..(ProgLen - 1) -> TailProgramWords], tail \in TailWords,
     checks \in BOOLEAN :
    /\ LET e == load_tail(load(new, prog), tail) IN Holds(e)
    /\ outcome = OK
    /\ tones = 0
    /\ overflow_checks = checks
    /\ fuel = MaxTicks
    /\ budget = MaxTicks

\* the result of k calls of tick() in a row, or of the first one that panics
RECURSIVE run_ticks(_, _, _)
run_ticks(self, checks, k) ==
  IF k = 0
    THEN Result(self, OK)
    ELSE IF k = 1
      THEN tick(self, checks)
      ELSE LET h == run_ticks(self, checks, k \div 2)
           IN IF h.outcome # OK
                THEN h
                ELSE run_ticks(h.emu, checks, k - k \div 2)

\* A fresh emulator with no program in memory, taken up as new() leaves it or
\* as SlideStart calls of tick() on it leave it.
InitSlide ==
  \E checks \in BOOLEAN, k \in {0, SlideStart} :
    LET r == run_ticks(new, checks, k) IN
    /\ Holds(r.emu)
    /\ outcome = r.outcome
    /\ tones = 0
    /\ overflow_checks = checks
    /\ fuel = SlideTicks - k
    /\ budget = SlideTicks

\* ------------------------------------------------------------------ actions
\* A panic unwinds out of the call and ends the run: the variables keep the
\* struct as the panicking call left it and no further call is made.  After
\* reset() the host has its budget of tick() calls again.
Tick ==
  LET r == tick(Emulator, overflow_checks) IN
  /\ outcome = OK
  /\ fuel > 0
  /\ Becomes(r.emu)
  /\ outcome' = r.outcome
  /\ fuel' = fuel - 1
  /\ UNCHANGED << tones, overflow_checks, budget >>

TickTimers ==
  LET r == tick_timers(Emulator) IN
  /\ outcome = OK
  /\ tones < MaxTones
  /\ Becomes(r.emu)
  /\ outcome' = OK
  /\ tones' = tones + r.bing
  /\ UNCHANGED << overflow_checks, fuel, budget >>

Reset ==
  /\ outcome = OK
  /\ Becomes(reset(Emulator))
  /\ outcome' = OK
  /\ fuel' = budget
  /\ UNCHANGED << tones, overflow_checks, budget >>

Next == Tick \/ TickTimers \/ Reset

Spec == Init /\ [][Next]_vars

SpecTimers == InitTimers /\ [][Next]_vars

SpecSlide == InitSlide /\ [][Next]_vars

SpecInstr == InitInstr /\ [][Next]_vars

SpecSkips == InitSkips /\ [][Next]_vars

SpecRegisters == InitRegisters /\ [][Next]_vars

SpecScreen == InitScreen /\ [][Next]_vars

SpecTail == InitTail /\ [][Next]_vars

\* ------------------------------------------------------------------- claims
\* the word tick() fetches from the struct, when both of its bytes are in memory
can_fetch(self) == self.program_counter + 1 < RAM_SIZE
word_at(self, a) == self.ram[a] * 256 + self.ram[a + 1]
next_word == word_at(Emulator, program_counter)
IsCall(w) == w \div 4096 = 2
IsRet(w) == w = 238
IsKeyWait(w) == w \div 4096 = 15 /\ w % 256 = 10
StackUnderflow == {PanicPopSubtract, PanicPopIndex}

\* the struct and the number of tones after k calls of tick_timers()
RECURSIVE run_timers(_, _)
run_timers(self, k) ==
  IF k = 0
    THEN [emu |-> self, bing |-> 0]
    ELSE LET r == tick_timers(self)
             rest == run_timers(r.emu, k - 1)
         IN [emu |-> rest.emu, bing |-> r.bing + rest.bing]

\* C1: with the sound timer at n >= 1, any k >= n consecutive tick_timers()
\* calls print exactly one tone in total and leave the sound timer at 0.
C1_ToneExactlyOnce ==
  sound_timer >= 1 =>
    \A k \in sound_timer..(sound_timer + MaxTones) :
      LET r == run_timers(Emulator, k)
      IN r.bing = 1 /\ r.emu.sound_timer = 0

\* C2: one tick_timers() call takes one from each timer that is not 0 and
\* leaves a timer that is 0 alone, each timer by its own value only.
C2_TimersSaturatingDecrement ==
  [][TickTimers =>
       /\ delay_timer' = (IF delay_timer > 0 THEN delay_timer - 1 ELSE 0)
       /\ sound_timer' = (IF sound_timer > 0 THEN sound_timer - 1 ELSE 0)]_vars

\* C3: in every state reached by tick(), tick_timers() and reset() calls, the
\* state a failed CALL or RET leaves included, 0 <= stack_pointer <= 16.
C3_StackPointerInRange == stack_pointer \in 0..STACK_SIZE

\* C4: a CALL succeeds while fewer than 16 slots are in use and fails with the
\* stack overflow at 16 (so 16 CALLs from the empty stack succeed and the 17th
\* fails); a RET succeeds while 1..16 slots are in use and fails with the
\* stack underflow at 0.
C4_CallRetStackLimits ==
  /\ (can_fetch(Emulator) /\ IsCall(next_word)) =>
       LET r == tick(Emulator, overflow_checks) IN
       /\ stack_pointer < STACK_SIZE => r.outcome = OK
       /\ stack_pointer = STACK_SIZE => r.outcome = PanicPushIndex
  /\ (can_fetch(Emulator) /\ IsRet(next_word)) =>
       LET r == tick(Emulator, overflow_checks) IN
       /\ stack_pointer \in 1..STACK_SIZE => r.outcome = OK
       /\ stack_pointer = 0 => r.outcome \in StackUnderflow
  /\ outcome = PanicPushIndex => stack_pointer = STACK_SIZE
  /\ outcome \in StackUnderflow => stack_pointer \in {0, U16 - 1}

\* C4 witness: the 17th CALL in a row, from the empty stack, has failed.
C4_Witness ==
  /\ outcome = PanicPushIndex
  /\ stack_pointer = STACK_SIZE
  /\ fuel = MaxTicks - (STACK_SIZE + 1)

\* C5: CALL nnn fetched at p with d < 16 slots in use stores p + 2 in slot d,
\* sets the program counter to nnn and the stack pointer to d + 1; a RET sets
\* the program counter to the top slot and takes one from the stack pointer;
\* so a RET executed next returns to p + 2 at depth d, and so do two nested
\* CALLs followed by their two RETs.
C5_CallRetRoundTrip ==
  LET p == program_counter
      d == stack_pointer
      oc == overflow_checks
      r1 == tick(Emulator, oc)
      r2 == tick(r1.emu, oc)
      r3 == tick(r2.emu, oc)
      r4 == tick(r3.emu, oc)
  IN /\ (can_fetch(Emulator) /\ IsCall(next_word) /\ d < STACK_SIZE) =>
          /\ r1.outcome = OK
          /\ r1.emu.stack = [stack EXCEPT ![d] = p + 2]
          /\ r1.emu.program_counter = next_word % 4096
          /\ r1.emu.stack_pointer = d + 1
          /\ (can_fetch(r1.emu) /\ IsRet(word_at(r1.emu, r1.emu.program_counter))) =>
               /\ r2.outcome = OK
               /\ r2.emu.program_counter = p + 2
               /\ r2.emu.stack_pointer = d
          /\ ( /\ d + 1 < STACK_SIZE
               /\ can_fetch(r1.emu)
               /\ IsCall(word_at(r1.emu, r1.emu.program_counter))
               /\ can_fetch(r2.emu)
               /\ IsRet(word_at(r2.emu, r2.emu.program_counter))
               /\ can_fetch(r3.emu)
               /\ IsRet(word_at(r3.emu, r3.emu.program_counter)) ) =>
               /\ r3.outcome = OK
               /\ r3.emu.program_counter = r1.emu.program_counter + 2
               /\ r3.emu.stack_pointer = d + 1
               /\ r4.outcome = OK
               /\ r4.emu.program_counter = p + 2
               /\ r4.emu.stack_pointer = d
     /\ (can_fetch(Emulator) /\ IsRet(next_word) /\ d \in 1..STACK_SIZE) =>
          /\ r1.outcome = OK
          /\ r1.emu.program_counter = stack[d - 1]
          /\ r1.emu.stack_pointer = d - 1
          /\ r1.emu.stack = stack

\* C5 witness: CALL 0x202 at 0x200, CALL 0x204 at 0x202, RET at 0x204 and RET
\* again at 0x204 have run; the program counter is back at 0x202 at depth 0.
C5_Witness ==
  /\ outcome = OK
  /\ fuel = MaxTicks - 4
  /\ stack_pointer = 0
  /\ program_counter = START_ADDR + 2
  /\ stack[0] = START_ADDR + 2
  /\ stack[1] = START_ADDR + 4

\* C6: a tick() that fails leaves every field of the struct as it found it.
C6_FailedTickChangesNothing ==
  [][(Tick /\ outcome' # OK) =>
       UNCHANGED << program_counter, ram, screen, v_reg, i_reg, stack_pointer,
                    stack, keys, delay_timer, sound_timer >>]_vars

\* the words that match a pattern of the instruction table
InTable(w) ==
  LET digit1 == w \div 4096
      digit4 == w % 16
      nn == w % 256
  IN \/ w \in {0, 224, 238}
     \/ digit1 \in {1, 2, 3, 4, 6, 7, 10, 11, 12, 13}
     \/ digit1 \in {5, 9} /\ digit4 = 0
     \/ digit1 = 8 /\ digit4 \in (0..7) \cup {14}
     \/ digit1 = 14 /\ nn \in {158, 161}
     \/ digit1 = 15 /\ nn \in {7, 10, 21, 24, 30, 41, 51, 85, 101}

\* C7: a tick() that fetches a word fails as unimplemented exactly when the
\* word matches no pattern of the instruction table.
C7_UnimplementedIffNotInTable ==
  [][(Tick /\ can_fetch(Emulator)) =>
       (outcome' = PanicUnimplemented <=> ~InTable(next_word))]_vars

\* C8: the fetch fails as out of bounds exactly when the program counter is
\* above 4094, and otherwise returns ram[pc] * 256 + ram[pc + 1]; tick() fails
\* that way in exactly those states.
C8_FetchBounds ==
  LET f == fetch_opcode(Emulator, overflow_checks)
      r == tick(Emulator, overflow_checks)
  IN /\ (program_counter > 4094) <=> (f.outcome = PanicFetchIndex)
     /\ (program_counter > 4094) <=> (r.outcome = PanicFetchIndex)
     /\ f.outcome = PanicFetchIndex => f.emu = Emulator
     /\ program_counter <= 4094 =>
          /\ f.outcome = OK
          /\ f.opcode = ram[program_counter] * 256 + ram[program_counter + 1]
          /\ f.emu.program_counter = program_counter + 2
     /\ outcome = PanicFetchIndex => program_counter > 4094

\* C8 witness: a fetch at 4095, whose second byte is outside memory, has failed.
C8_Witness == outcome = PanicFetchIndex /\ program_counter = RAM_SIZE - 1

\* C9: a tick() at the key wait Fx0A with no key pressed raises no error and
\* leaves the program counter at that instruction.
C9_KeyWaitHoldsProgramCounter ==
  [][(Tick /\ can_fetch(Emulator) /\ IsKeyWait(next_word)
        /\ \A k \in 0..(NUM_KEYS - 1) : ~keys[k]) =>
       (outcome' = OK /\ program_counter' = program_counter)]_vars

\* C10: tick() leaves both timers alone, tick_timers() leaves everything but
\* the timers alone, and the two calls give the same struct, result and tones
\* in either order.
C10_ClocksDecoupled ==
  LET oc == overflow_checks
      t == tick(Emulator, oc)
      m == tick_timers(Emulator)
      tm == tick_timers(t.emu)
      mt == tick(m.emu, oc)
  IN /\ t.emu.delay_timer = delay_timer
     /\ t.emu.sound_timer = sound_timer
     /\ [m.emu EXCEPT !.delay_timer = delay_timer, !.sound_timer = sound_timer]
          = Emulator
     /\ tm.emu = mt.emu
     /\ mt.outcome = t.outcome
     /\ tm.bing = m.bing

\* C10 witness: a CALL has run and tick_timers() has run once, on timers 2 and 1.
C10_Witness ==
  /\ outcome = OK
  /\ stack_pointer = 1
  /\ tones = 1
  /\ delay_timer = 1
  /\ sound_timer = 1

\* the state the claim describes: program counter 0x200, the font at 0..79,
\* everything else zero or false
FreshState ==
  [ program_counter |-> 512,
    ram |-> [a \in 0..4095 |-> IF a <= 79 THEN FONTSET[a + 1] ELSE 0],
    screen |-> [p \in 0..(64 * 32 - 1) |-> FALSE],
    v_reg |-> [r \in 0..15 |-> 0],
    i_reg |-> 0,
    stack_pointer |-> 0,
    stack |-> [k \in 0..15 |-> 0],
    keys |-> [k \in 0..15 |-> FALSE],
    delay_timer |-> 0,
    sound_timer |-> 0 ]

\* C11: from every state reached by tick() and tick_timers() calls, reset()
\* gives the state new() gives: program counter 0x200, the font at 0..79, all
\* other memory 0, pixels and keys false, registers, I, stack, stack pointer
\* and timers 0.
C11_ResetEqualsNew ==
  /\ reset(Emulator) = FreshState
  /\ new = FreshState

\* C11 witness: reset() has run on an emulator whose sound timer was 1 (a tone
\* was printed, and the timer stays 1 until a reset).
C11_Witness == Emulator = new /\ tones = 1

\* C18: from new() or reset() with no program in memory every tick() fetches
\* the word 0 and only adds 2 to the program counter; 1792 calls in a row
\* succeed, taking it from 0x200 to 4096, and the next one fails at the fetch
\* with the program counter left at 4096.
C18_NoWrapAtEndOfMemory ==
  LET n == budget - fuel
      r == tick(Emulator, overflow_checks)
  IN /\ outcome = OK =>
          /\ n <= 1792
          /\ program_counter = 512 + 2 * n
          /\ [Emulator EXCEPT !.program_counter = 512] = new
     /\ (outcome = OK /\ n < 1792) =>
          /\ can_fetch(Emulator)
          /\ next_word = 0
          /\ r.outcome = OK
          /\ r.emu = [Emulator EXCEPT !.program_counter = program_counter + 2]
     /\ (outcome = OK /\ n = 1792) =>
          /\ program_counter = 4096
          /\ r.outcome = PanicFetchIndex
          /\ r.emu = Emulator
     /\ outcome # OK =>
          /\ outcome = PanicFetchIndex
          /\ n = 1793
          /\ program_counter = 4096

\* C18 witness: the 1793rd tick() has failed at the fetch.
C18_Witness ==
  /\ outcome = PanicFetchIndex
  /\ program_counter = RAM_SIZE
  /\ budget - fuel = 1793

\* addresses 0x000..0x04F hold the 80 font bytes
FontInMemory == \A a \in 0..79 : ram[a] = FONTSET[a + 1]

\* C19 as stated: through every tick(), tick_timers() and reset() call the
\* font stays at 0x000..0x04F and every other byte keeps the value it was
\* loaded with, that is, no call changes memory.
C19_MemoryNeverWritten ==
  FontInMemory /\ [][FontInMemory' /\ ram' = ram]_vars

\* C19 amended: the font stays at 0x000..0x04F through every call; tick() and
\* tick_timers() leave every byte as it is, failed calls included; reset()
\* leaves the font in place and every byte outside the font at 0.
C19_MemoryWrittenOnlyByReset ==
  /\ FontInMemory
  /\ outcome = OK =>
       /\ tick(Emulator, overflow_checks).emu.ram = ram
       /\ tick_timers(Emulator).emu.ram = ram
       /\ reset(Emulator).ram =
            [a \in 0..4095 |-> IF a < 80 THEN FONTSET[a + 1] ELSE 0]

\* C19 witness: reset() has erased a program and tick() has run since.
C19_Witness ==
  /\ outcome = OK
  /\ fuel < budget
  /\ \A a \in 80..4095 : ram[a] = 0

\* the four digits and the immediates of an instruction word
digit1(w) == w \div 4096
digit2(w) == (w \div 256) % 16
digit3(w) == (w \div 16) % 16
digit4(w) == w % 16

\* C12: a successful tick() adds exactly 2 to the program counter before the
\* instruction acts.  After NOP, CLS, LD Vx,nn, ADD Vx,nn and LD Vx,Vy the
\* program counter is pc_before + 2, and NOP changes nothing else; after
\* JP nnn it is nnn; the value CALL pushes is pc_before + 2.
C12_TickAdvancesByTwo ==
  (outcome = OK /\ can_fetch(Emulator)) =>
    LET w == next_word
        f == fetch_opcode(Emulator, overflow_checks)
        r == tick(Emulator, overflow_checks)
    IN /\ f.outcome = OK
       /\ f.opcode = w
       /\ f.emu = [Emulator EXCEPT !.program_counter = program_counter + 2]
       /\ w = 0 =>
            /\ r.outcome = OK
            /\ r.emu = [Emulator EXCEPT !.program_counter = program_counter + 2]
       /\ (w = 224 \/ digit1(w) \in {6, 7} \/ (digit1(w) = 8 /\ digit4(w) = 0)) =>
            /\ r.outcome = OK
            /\ r.emu.program_counter = program_counter + 2
       /\ digit1(w) = 1 =>
            /\ r.outcome = OK
            /\ r.emu.program_counter = w % 4096
       /\ (digit1(w) = 2 /\ r.outcome = OK) =>
            /\ r.emu.stack[stack_pointer] = program_counter + 2
            /\ r.emu.stack_pointer = stack_pointer + 1

\* C12 witness: LD V1,0x55 at 0x200 ran, then CALL 0x204 at 0x202 pushed 0x204.
C12_Witness ==
  /\ outcome = OK
  /\ budget - fuel = 2
  /\ v_reg[1] = 85
  /\ stack_pointer = 1
  /\ stack[0] = 516
  /\ program_counter = 516

\* the instruction word is one of the three conditional skips
IsSkip(w) == digit1(w) \in {3, 4} \/ (digit1(w) = 5 /\ digit4(w) = 0)

\* the condition of the conditional skip w over the registers v
SkipCondition(w, v) ==
  CASE digit1(w) = 3 -> v[digit2(w)] = w % 256
    [] digit1(w) = 4 -> v[digit2(w)] # w % 256
    [] OTHER -> v[digit2(w)] = v[digit3(w)]

\* C13: 3xnn skips iff Vx = nn, 4xnn iff Vx # nn, 5xy0 iff Vx = Vy.  A skip
\* taken leaves the program counter at pc_before + 4, a skip not taken at
\* pc_before + 2, and either way no register, stack slot, memory byte, pixel
\* or other field changes.
C13_SkipsAddTwoIffCondition ==
  (outcome = OK /\ can_fetch(Emulator) /\ IsSkip(next_word)) =>
    LET r == tick(Emulator, overflow_checks)
        step == IF SkipCondition(next_word, v_reg) THEN 4 ELSE 2
    IN /\ r.outcome = OK
       /\ r.emu = [Emulator EXCEPT !.program_counter = program_counter + step]

\* C13 witness: with V1 = 0x55, SNE V1,0x55 at 0x202 was not taken and
\* SE V1,0x55 at 0x204 was taken.
C13_Witness ==
  /\ outcome = OK
  /\ budget - fuel = 3
  /\ v_reg[1] = 85
  /\ word_at(Emulator, 514) = 16725
  /\ word_at(Emulator, 516) = 12629
  /\ program_counter = 520

\* C14: ADD Vx,nn leaves Vx = (Vx + nn) mod 256 and never fails; every other
\* register, V15 included when x # 15, and every other field but the program
\* counter is unchanged.
C14_AddWrapsWithoutFlag ==
  (outcome = OK /\ can_fetch(Emulator) /\ digit1(next_word) = 7) =>
    LET r == tick(Emulator, overflow_checks)
        x == digit2(next_word)
        nn == next_word % 256
        sum == v_reg[x] + nn
        wrapped == IF sum > 255 THEN sum - 256 ELSE sum
    IN /\ r.outcome = OK
       /\ r.emu.v_reg[x] = wrapped
       /\ \A k \in 0..15 : k # x => r.emu.v_reg[k] = v_reg[k]
       /\ x # 15 => r.emu.v_reg[15] = v_reg[15]
       /\ r.emu = [Emulator EXCEPT !.program_counter = program_counter + 2,
                                   !.v_reg = r.emu.v_reg]

\* C14 witness: LD V1,0x55, LD VF,V1 and ADD V1,0xFF ran: V1 wrapped to 0x54
\* and VF is still 0x55.
C14_Witness ==
  /\ outcome = OK
  /\ budget - fuel = 3
  /\ word_at(Emulator, 516) = 29183
  /\ v_reg[1] = 84
  /\ v_reg[15] = 85

\* C15: LD Vx,nn leaves Vx = nn and LD Vx,Vy leaves Vx at the value Vy had;
\* every other register, the I register, the stack, the stack pointer, memory,
\* the display, the keys and the timers are unchanged.
C15_LoadsWriteOneRegister ==
  (outcome = OK /\ can_fetch(Emulator)
     /\ (digit1(next_word) = 6 \/ (digit1(next_word) = 8 /\ digit4(next_word) = 0))) =>
    LET r == tick(Emulator, overflow_checks)
        x == digit2(next_word)
        loaded == IF digit1(next_word) = 6
                    THEN next_word % 256
                    ELSE v_reg[digit3(next_word)]
    IN /\ r.outcome = OK
       /\ r.emu = [Emulator EXCEPT
                     !.program_counter = program_counter + 2,
                     !.v_reg = [k \in 0..15 |-> IF k = x THEN loaded ELSE v_reg[k]]]

\* C15 witness: LD VF,0xAA, LD V1,0x55 and LD VF,V1 ran.
C15_Witness ==
  /\ outcome = OK
  /\ budget - fuel = 3
  /\ word_at(Emulator, 512) = 28586
  /\ word_at(Emulator, 516) = 36624
  /\ v_reg[1] = 85
  /\ v_reg[15] = 85

\* the fresh emulator, and the emulator after LD VF,0xAA and LD V1,0x55 ran
DecodeStates ==
  { new,
    run_ticks(load(new, [i \in 0..(ProgLen - 1) |-> IF i = 0 THEN 28586 ELSE 24917]),
              TRUE, 2).emu }

\* no instruction word makes execute_opcode fail in set_v_reg or get_v_reg
NoWordReachesRangeCheck ==
  \A self \in DecodeStates, checks \in BOOLEAN, w \in 0..(U16 - 1) :
    execute_opcode(self, w, checks).outcome # PanicVRegRange

\* C17: set_v_reg and get_v_reg fail for an index above 15 and for no other;
\* execute_opcode passes them indices 0..15 only, for each of the 65536
\* instruction words, so no tick() fails with the register range error.
C17_RegisterRangeCheckUnreachable ==
  /\ \A i \in 0..255 :
       /\ (set_v_reg(Emulator, i, 0).outcome = PanicVRegRange) <=> (i > 15)
       /\ (get_v_reg(Emulator, i).outcome = PanicVRegRange) <=> (i > 15)
  /\ NoWordReachesRangeCheck
  /\ outcome # PanicVRegRange
  /\ outcome = OK => tick(Emulator, overflow_checks).outcome # PanicVRegRange

\* C17 witness: LD VF,0xAA and ADD VF,0x01 ran on register 15.
C17_Witness ==
  /\ outcome = OK
  /\ budget - fuel = 2
  /\ v_reg[15] = 171

\* C16: CLS leaves all 64 * 32 pixels false whatever they were and changes
\* nothing else but the program counter; a tick() of any other instruction
\* than CLS and DRW, failed ones included, and tick_timers() change no pixel.
C16_DisplayChangesOnlyByClear ==
  /\ tick_timers(Emulator).emu.screen = screen
  /\ outcome = OK =>
       LET r == tick(Emulator, overflow_checks) IN
       IF can_fetch(Emulator) /\ next_word = 224
         THEN /\ r.outcome = OK
              /\ \A p \in 0..2047 : ~r.emu.screen[p]
              /\ r.emu = [Emulator EXCEPT !.program_counter = program_counter + 2,
                                          !.screen = r.emu.screen]
         ELSE (can_fetch(Emulator) => digit1(next_word) # 13) =>
                r.emu.screen = screen

\* C16 witness: LD V1,0x55 ran, the striped display is still as it was, and
\* the CLS that comes next clears it.
C16_Witness ==
  /\ outcome = OK
  /\ fuel > 0
  /\ v_reg[1] = 85
  /\ screen = striped_screen
  /\ next_word = 224
  /\ tick(Emulator, overflow_checks).emu.screen = blank_screen

\* C20: the program counter is at most 4098 and every stack slot at most 4096,
\* so no program counter addition overflows the 16 bits.
C20_ProgramCounterNeverOverflows ==
  /\ program_counter <= 4098
  /\ \A k \in 0..15 : stack[k] <= 4096
  /\ outcome # PanicAddOverflow
  /\ outcome = OK =>
       /\ tick(Emulator, overflow_checks).outcome # PanicAddOverflow
       /\ tick(Emulator, overflow_checks).emu.program_counter <= 4098

\* C20 witness: the skip in the last two bytes of memory was taken.
C20_Witness ==
  /\ program_counter = 4098
  /\ outcome = OK

====
